---------------------------- MODULE Spec2Model ----------------------------
(***************************************************************************)
(* Dataset build pipeline of robotpose (src/robotpose/building.py):        *)
(* Builder.build_full, Builder.build_subset and Builder.weld acting on a   *)
(* file system of raw capture directories, HDF5 containers and preview     *)
(* videos (specification Spec), and the compiled-dataset loader of         *)
(* src/robotpose/dataset.py: Dataset.__init__, Dataset.validate and build  *)
(* (specification DatasetSpec).  The interactive tools have a               *)
(* specification each: the Aligner (AlignerSpec) and the Renderer's colour *)
(* map (RendererSpec) of src/robotpose/render.py, and the DatasetWizard    *)
(* (WizardSpec) of src/robotpose/wizards.py.                               *)
(*                                                                         *)
(* Library semantics the code relies on (h5py, numpy, multiprocessing) are *)
(* modelled by what the library does at the call site:                     *)
(*   - h5py.File(p,'r') raises when p does not exist; h5py.File(p,'a')     *)
(*     creates an empty file when p does not exist;                        *)
(*   - create_dataset/create_group raise when the name already exists;     *)
(*   - File.attrs is a read-only property: assigning to it raises;         *)
(*   - numpy item assignment broadcasts the value to the slot's shape and  *)
(*     raises only when the shapes cannot be broadcast;                    *)
(*   - bool() of an array with more than one element raises;               *)
(*   - an h5py object (dataset, attribute manager) is a reference into its  *)
(*     file: once the file is closed every read through it raises;         *)
(*   - Pool.starmap cuts the iterable into chunks, workers finish chunks   *)
(*     in any order, results are stored by chunk index, and the first      *)
(*     exception is re-raised once every chunk has returned.               *)
(***************************************************************************)
EXTENDS Integers, Sequences, FiniteSets, TLC

(***************************************************************************)
(* Bounds of the model                                                     *)
(***************************************************************************)
\* largest frame count of a small capture
MaxFrames == 3
\* largest number of whole crop batches in a large capture
MaxFull == 2
\* largest number of frames beyond a whole number of crop batches
MaxRem == 1
\* largest worker count workerCount() reports
MaxWorkers == 2
\* longest index list handed to build_subset
MaxIdxs == 2

(***************************************************************************)
(* Generic helpers                                                         *)
(***************************************************************************)
NoValue == "none"

\* f with key k bound to v (dict / attribute-manager item assignment)
Put(f, k, v) == [x \in (DOMAIN f) \cup {k} |-> IF x = k THEN v ELSE f[x]]

EmptyMap == [x \in {} |-> NoValue]

\* len() of an array held as a function over 0..n-1
Dim0(arr) == Cardinality(DOMAIN arr)

Min(a, b) == IF a < b THEN a ELSE b


(***************************************************************************)
(* Raw capture directories (spec section 6: one JSON, one depth map and    *)
(* one colour image per frame).  A capture is described by                 *)
(*   id        seed of its frame contents                                  *)
(*   n_png, n_json, n_npy   the number of files of each extension          *)
(*   cam       <<field, i>>: frame i's JSON differs from the others in     *)
(*             that realsense_info field (<<"none", 0>>: uniform camera;   *)
(*             <<"all_scale", 0>>: uniform, with another depth scale)      *)
(*   shp       <<kind, i>>: image or depth map i has another shape         *)
(*   bad_crop  the frame the Cropper raises for, -1 for none               *)
(***************************************************************************)
FrameId(c, i) == c.id * 1000 + i

\* shape of a regular colour image (H, W, 3) and depth map (H, W)
ImgShape == <<2, 3, 3>>
MapShape == <<2, 3>>

\* json.load of the i-th .json file
JsonFile(c, i) ==
    [depth_scale  |-> IF c.cam = <<"depth_scale", i>> \/ c.cam[1] = "all_scale"
                         THEN 3 ELSE 2,
     intrin_depth |-> IF c.cam = <<"intrin_depth", i>> THEN "D2" ELSE "D1",
     intrin_color |-> IF c.cam = <<"intrin_color", i>> THEN "C2" ELSE "C1",
     angle        |-> <<"ang", FrameId(c, i)>>,
     position     |-> <<"pos", FrameId(c, i)>>]

\* cv2.imread of the i-th .png file
ImageFile(c, i) ==
    [px    |-> FrameId(c, i),
     shape |-> CASE c.shp = <<"img_row", i>> -> <<1, 3, 3>>
                 [] c.shp = <<"img_bad", i>> -> <<3, 3, 3>>
                 [] OTHER -> ImgShape]

\* np.load of the i-th .npy file; depth values are raw sensor units
MapFile(c, i) ==
    [d     |-> FrameId(c, i) + 1,
     shape |-> CASE c.shp = <<"map_row", i>> -> <<3>>
                 [] c.shp = <<"map_bad", i>> -> <<2, 2>>
                 [] OTHER -> MapShape]

\* relative paths recorded in the path manifests
RelPath(c, ext, i) == <<c.id, i, ext>>

Capture(id, n, nj, nm, cam, shp, bad) ==
    [id |-> id, n_png |-> n, n_json |-> nj, n_npy |-> nm,
     cam |-> cam, shp |-> shp, bad_crop |-> bad]

Healthy(id, n) == Capture(id, n, n, n, <<"none", 0>>, <<"none", 0>>, -1)

\* a directory with no capture files in it
EmptyDir == Healthy(0, 0)

\* frame count of the crop batches (building.py line 137)
BatchSize == 100

SmallCounts == 1..MaxFrames
LargeCounts == {k * BatchSize + r : k \in 1..MaxFull, r \in 0..MaxRem}
                  \cup {BatchSize - 1}

\* small captures that break one precondition of the build
Faulty ==
    LET n == MaxFrames IN
       ({Capture(2, n, n + dj, n + dm, <<"none", 0>>, <<"none", 0>>, -1) :
            dj \in {-1, 0, 1}, dm \in {-1, 0, 1}} \ {Healthy(2, n)})
    \cup {Capture(2, n, n, n, <<f, i>>, <<"none", 0>>, -1) :
            f \in {"depth_scale", "intrin_depth", "intrin_color"}, i \in {0, n - 1}}
    \cup {Capture(2, n, n, n, <<"none", 0>>, <<k, i>>, -1) :
            k \in {"img_row", "img_bad", "map_row", "map_bad"}, i \in {0, 1, n - 1}}
    \cup {Capture(2, n, n, n, <<"none", 0>>, <<"none", 0>>, i) : i \in {0, n - 1}}

\* a sound capture taken with another depth scale than the others
OtherCamera(id, n) == Capture(id, n, n, n, <<"all_scale", 0>>, <<"none", 0>>, -1)

\* a large capture in which the Cropper raises for frame i
CropFails(i) ==
    Capture(1, BatchSize + MaxRem, BatchSize + MaxRem, BatchSize + MaxRem,
            <<"none", 0>>, <<"none", 0>>, i)

\* the raw directory trees the builds may find on disk
Worlds ==
       {[r1 |-> Healthy(1, n)] : n \in SmallCounts \cup LargeCounts}
    \cup {[r1 |-> CropFails(i)] : i \in {0, BatchSize - 1, BatchSize + MaxRem - 1}}
    \cup {[r1 |-> Healthy(1, MaxFrames), r2 |-> c] :
            c \in Faulty \cup {EmptyDir, OtherCamera(2, MaxFrames)}
                    \cup {Healthy(2, n) : n \in SmallCounts}}


(***************************************************************************)
(* State                                                                   *)
(***************************************************************************)
VARIABLES
    raw,          \* raw directory name -> capture found under it
    dirs,         \* dataset directories that exist
    h5,           \* container path -> container file (attrs, datasets)
    vids,         \* dataset directory -> preview videos written there
    op,           \* the Builder call in progress (or the last one)
    pc,           \* position of that call
    err,          \* the exception that ended it, NoValue for none
    self,         \* attributes of the Builder object of that call
    start,        \* crop loop: for start in range(0, length, batch_size)
    batch_size,   \* crop loop: local batch_size
    crop_inputs,  \* crop loop: iterable handed to the pool
    crop_outputs, \* crop loop: what pool.starmap returned
    pool,         \* the worker pool of the current batch
    dispatched,   \* the batches (start, frames) handed to a pool so far
    segmenter,    \* the RobotSegmenter of the call and the frames it was given
    reads,        \* build_subset: accesses made through the source container
    datasets,     \* dataset.py: compiled dataset name -> its directory
    rawsets,      \* dataset.py: the raw directories under p.datasets/raw
    ds,           \* dataset.py: the Dataset constructor call in progress
    aligner,      \* render.py: the Aligner object, once constructed
    rend,         \* render.py: the Renderer object, once constructed
    wizard        \* wizards.py: the DatasetWizard window

vars == <<raw, dirs, h5, vids, op, pc, err, self, start, batch_size,
          crop_inputs, crop_outputs, pool, dispatched, segmenter, reads,
          datasets, rawsets, ds, aligner, rend, wizard>>

\* what no Builder call changes: the raw captures, the world of dataset.py
\* and the interactive tools
env == <<raw, datasets, rawsets, ds, aligner, rend, wizard>>
fs == <<dirs, h5, vids>>
loop == <<start, batch_size, crop_inputs, crop_outputs, pool, dispatched>>
held == <<segmenter, reads>>

NoPool == [open |-> FALSE]

\* no RobotSegmenter has been made by the call
NoSegmenter == [state |-> "none", calls |-> << >>]

\* no tool window is open: no Aligner, Renderer or DatasetWizard object
NoObject == [pc |-> "none"]

\* no Dataset has been constructed (names are strings of characters)
DsIdle == [pc |-> "idle", name |-> << >>, nm |-> << >>, builds |-> 0,
           err |-> NoValue]

Init ==
    /\ raw \in Worlds
    /\ dirs = {}
    /\ h5 = EmptyMap
    /\ vids = EmptyMap
    /\ op = [fn |-> "none"]
    /\ pc = "idle"
    /\ err = NoValue
    /\ self = EmptyMap
    /\ start = 0
    /\ batch_size = 0
    /\ crop_inputs = << >>
    /\ crop_outputs = << >>
    /\ pool = NoPool
    /\ dispatched = << >>
    /\ segmenter = NoSegmenter
    /\ reads = {}
    /\ datasets = EmptyMap
    /\ rawsets = EmptyMap
    /\ ds = DsIdle
    /\ aligner = NoObject
    /\ rend = NoObject
    /\ wizard = NoObject

\* no Builder call is in progress
Idle == pc \in {"idle", "done", "error"}

\* the call raises exc
Raise(exc) == pc' = "error" /\ err' = exc

\* the indices of an array of n slots
Idx(n) == 0..(n - 1)

(***************************************************************************)
(* Builder.build_full                                                      *)
(***************************************************************************)
Names == {"r1"}
Versions == {1}

\* os.path.basename(os.path.normpath(data_path))
Basename(path) == path[Len(path)]

\* os.path.join(self.dest_path, self.name + '.h5')
ContainerPath(dest_path, name) == dest_path \o <<name, ".h5">>

\* build_full up to and including _set_dest_path
BuildFull(data_path, dataset_ver, name) ==
    /\ Idle
    /\ LET nm == IF name = NoValue THEN Basename(data_path) ELSE name
           dest_path == <<"DATASETS", nm>>
       IN  /\ self' = [dest_path |-> dest_path, name |-> nm]
           /\ dirs' = dirs \cup {dest_path}
    /\ op' = [fn |-> "build_full", data_path |-> data_path,
              dataset_ver |-> dataset_ver, name |-> name]
    /\ pc' = "scan"
    /\ err' = NoValue
    /\ start' = 0 /\ batch_size' = 0
    /\ crop_inputs' = << >> /\ crop_outputs' = << >>
    /\ pool' = NoPool /\ dispatched' = << >>
    /\ segmenter' = NoSegmenter /\ reads' = {}
    /\ UNCHANGED <<env, h5, vids>>

\* the capture os.walk finds under data_path
Walk(data_path) == raw[Basename(data_path)]

\* full paths of the files with one extension, in walk order
FilePaths(data_path, n, ext) ==
    [i \in Idx(n) |-> data_path \o RelPath(Walk(data_path), ext, i)]

\* x.replace(data_path, '')
StripRoot(path, data_path) == SubSeq(path, Len(data_path) + 1, Len(path))

\* the frame index a discovered file path stands for
FrameOf(path) == path[Len(path) - 1]

\* mutant: a directory without frames fails the comparison
EqualCounts_NonEmpty(jsons, maps, length) ==
    Dim0(jsons) = Dim0(maps) /\ Dim0(maps) = length /\ length > 0

\* mutant: the depth maps are left out of the comparison
EqualCounts_NoMaps(jsons, maps, length) == Dim0(jsons) = length

\* len(self.jsons) == len(self.maps) == self.length
EqualCounts(jsons, maps, length) == Dim0(jsons) = Dim0(maps) /\ Dim0(maps) = length

GetFilepaths ==
    /\ pc = "scan"
    /\ LET dp == op.data_path
           c == Walk(dp)
           jsons_p == FilePaths(dp, c.n_json, ".json")
           maps_p == FilePaths(dp, c.n_npy, ".npy")
           imgs_p == FilePaths(dp, c.n_png, ".png")
           jsons == [i \in Idx(c.n_json) |-> StripRoot(jsons_p[i], dp)]
           maps == [i \in Idx(c.n_npy) |-> StripRoot(maps_p[i], dp)]
           imgs == [i \in Idx(c.n_png) |-> StripRoot(imgs_p[i], dp)]
           length == Dim0(imgs)
       IN  /\ self' = [jsons_p |-> jsons_p, maps_p |-> maps_p, imgs_p |-> imgs_p,
                       jsons |-> jsons, maps |-> maps, imgs |-> imgs,
                       length |-> length] @@ self
           /\ IF EqualCounts(jsons, maps, length)
                 THEN pc' = "json" /\ err' = NoValue
                 ELSE Raise("AssertionError")
    /\ UNCHANGED <<env, fs, op, loop, held>>

\* mutant: only the depth scale is checked
UniformCamera_ScaleOnly(depth_scale, intrin_depth, intrin_color) ==
    Cardinality(depth_scale) = 1

\* the camera settings are uniform over the dataset
UniformCamera(depth_scale, intrin_depth, intrin_color) ==
    /\ Cardinality(depth_scale) = Cardinality(intrin_depth)
    /\ Cardinality(intrin_depth) = Cardinality(intrin_color)
    /\ Cardinality(intrin_color) = 1

\* set.pop() of a one-element set
Pop(S) == CHOOSE x \in S : TRUE

LoadJsonData ==
    /\ pc = "json"
    /\ LET c == Walk(op.data_path)
           n == Min(self.length, Dim0(self.jsons_p))
           d == [i \in Idx(n) |-> JsonFile(c, FrameOf(self.jsons_p[i]))]
           ang_arr == [i \in Idx(self.length) |-> IF i < n THEN d[i].angle ELSE 0]
           pos_arr == [i \in Idx(self.length) |-> IF i < n THEN d[i].position ELSE 0]
           depth_scale == {d[i].depth_scale : i \in 0..(n - 1)}
           intrin_depth == {d[i].intrin_depth : i \in 0..(n - 1)}
           intrin_color == {d[i].intrin_color : i \in 0..(n - 1)}
       IN  IF UniformCamera(depth_scale, intrin_depth, intrin_color)
              THEN /\ self' = [ang_arr |-> ang_arr, pos_arr |-> pos_arr,
                               depth_scale |-> Pop(depth_scale),
                               intrin_depth |-> Pop(intrin_depth),
                               intrin_color |-> Pop(intrin_color)] @@ self
                   /\ pc' = "load" /\ err' = NoValue
              ELSE /\ self' = [ang_arr |-> ang_arr, pos_arr |-> pos_arr] @@ self
                   /\ Raise("AssertionError")
    /\ UNCHANGED <<env, fs, op, loop, held>>


\* numpy: a value of shape S can be assigned to a slot of shape T
Broadcastable(S, T) ==
    /\ Len(S) <= Len(T)
    /\ \A k \in 1..Len(S) : S[Len(S) - k + 1] \in {1, T[Len(T) - k + 1]}

\* arr[idx] = value: the slot holds the value broadcast to the slot's shape
Assignable(value, slot) == Broadcastable(value.shape, slot)

\* the first of the indices whose assignment raises, n when there is none
FirstBad(n, bad) ==
    IF bad = {} THEN n ELSE CHOOSE i \in bad : \A j \in bad : i <= j

\* mutant: the scale is applied a second time
Scale_Twice(depthmap, depth_scale) ==
    [depthmap EXCEPT !.d = @ * depth_scale * depth_scale]

\* self.depthmap_arr *= self.depth_scale, for one depth map
Scale(depthmap, depth_scale) == [depthmap EXCEPT !.d = @ * depth_scale]

LoadImgsAndDepthmaps ==
    /\ pc = "load"
    /\ IF self.length = 0
          THEN Raise("IndexError") /\ UNCHANGED self
          ELSE
            LET c == Walk(op.data_path)
                img == ImageFile(c, FrameOf(self.imgs_p[0]))
                img_height == img.shape[1]
                img_width == img.shape[2]
                img_slot == <<img_height, img_width, 3>>
                map_slot == <<img_height, img_width>>
                img_zero == [px |-> 0, shape |-> img_slot]
                map_zero == [d |-> 0, shape |-> map_slot]
                Img(i) == ImageFile(c, FrameOf(self.imgs_p[i]))
                Map(i) == MapFile(c, FrameOf(self.maps_p[i]))
                n_img == Min(self.length, Dim0(self.imgs_p))
                n_map == Min(self.length, Dim0(self.maps_p))
                bad_img == FirstBad(n_img, {i \in Idx(n_img) : ~Assignable(Img(i), img_slot)})
                bad_map == FirstBad(n_map, {i \in Idx(n_map) : ~Assignable(Map(i), map_slot)})
                orig_img_arr ==
                    [i \in Idx(self.length) |-> IF i < bad_img THEN Img(i) ELSE img_zero]
                loaded == [img_height |-> img_height, img_width |-> img_width,
                           orig_img_arr |-> orig_img_arr]
            IN  IF bad_img < n_img
                   THEN /\ self' = [depthmap_arr |->
                                        [i \in Idx(self.length) |-> map_zero]]
                                   @@ loaded @@ self
                        /\ Raise("ValueError")
                ELSE IF bad_map < n_map
                   THEN /\ self' = [depthmap_arr |->
                                        [i \in Idx(self.length) |-> IF i < bad_map THEN Map(i) ELSE map_zero]]
                                   @@ loaded @@ self
                        /\ Raise("ValueError")
                ELSE /\ self' = [depthmap_arr |->
                                     [i \in Idx(self.length) |-> Scale(IF i < n_map THEN Map(i) ELSE map_zero,
                                               self.depth_scale)]]
                                @@ loaded @@ self
                     /\ pc' = "segment" /\ err' = NoValue
    /\ UNCHANGED <<env, fs, op, loop, held>>

\* RobotSegmenter.segmentImage: colour image -> (mask, roi)
segmentImage(image) == [mask |-> <<"mask", image.px>>, roi |-> <<"roi", image.px>>]

\* lines 124-128: the segmenter is made and the output arrays are allocated
SegmenterNew ==
    /\ pc = "segment"
    /\ segmenter.state = "none"
    /\ segmenter' = [state |-> "live", calls |-> << >>]
    /\ self' = [segmented_img_arr |-> [i \in Idx(self.length) |-> 0],
                pointmap |-> [i \in Idx(self.length) |-> 0],
                mask_arr |-> [i \in Idx(self.length) |-> 0],
                rois |-> [i \in Idx(self.length) |-> 0]] @@ self
    /\ UNCHANGED <<env, fs, op, pc, err, loop, reads>>

\* lines 131-132: one pass of for idx in range(self.length); the call returns
\* before the next pass starts
SegmentImage ==
    /\ pc = "segment"
    /\ segmenter.state = "live"
    /\ LET idx == Len(segmenter.calls) IN
       /\ idx < self.length
       /\ LET seg == segmentImage(self.orig_img_arr[idx]) IN
          self' = [self EXCEPT !.mask_arr[idx] = seg.mask, !.rois[idx] = seg.roi]
       /\ segmenter' = [segmenter EXCEPT !.calls = Append(@, idx)]
    /\ UNCHANGED <<env, fs, op, pc, err, loop, reads>>

\* mutant: the loop is left after its first pass
SegmentImages_FirstOnly ==
    /\ pc = "segment"
    /\ segmenter.state = "live"
    /\ Len(segmenter.calls) >= Min(1, self.length)
    /\ segmenter' = [segmenter EXCEPT !.state = "released"]
    /\ start' = 0
    /\ batch_size' = BatchSize
    /\ pc' = "crop"
    /\ UNCHANGED <<env, fs, op, err, self, crop_inputs, crop_outputs, pool, dispatched,
                   reads>>

\* lines 133-137: the loop is exhausted, del segmenter drops the only
\* reference to the segmenter, and the crop loop is entered
SegmentImages ==
    /\ pc = "segment"
    /\ segmenter.state = "live"
    /\ Len(segmenter.calls) = self.length
    /\ segmenter' = [segmenter EXCEPT !.state = "released"]
    /\ start' = 0
    /\ batch_size' = BatchSize
    /\ pc' = "crop"
    /\ UNCHANGED <<env, fs, op, err, self, crop_inputs, crop_outputs, pool, dispatched,
                   reads>>


(***************************************************************************)
(* The crop stage (lines 137-157)                                          *)
(***************************************************************************)
\* multithread.crop: (depth map, image, mask, roi) -> (segmented image, point map)
crop(depthmap, image, mask, roi) ==
    <<[seg |-> <<image.px, mask, roi>>], [pts |-> <<depthmap.d, mask, roi>>]>>

\* this capture's frame the Cropper raises an exception for
CropRaises(c, input) == c.bad_crop >= 0 /\ input[2].px = FrameId(c, c.bad_crop)

\* mutant: the batch always takes every frame that is left
TruncatedBatch_NoLimit(first, size, length) == length - first

\* if start + batch_size >= self.length: batch_size = self.length - start
TruncatedBatch(first, size, length) ==
    IF first + size >= length THEN length - first ELSE size

\* the step of range(0, self.length, batch_size), fixed when the loop is entered
RangeStep == BatchSize

\* lines 140-148: next start of the range, batch size, pool iterable
AssembleBatch ==
    /\ pc = "crop"
    /\ IF start < self.length
          THEN LET size == TruncatedBatch(start, batch_size, self.length)
               IN  /\ batch_size' = size
                   /\ crop_inputs' =
                        [k \in 0..(size - 1) |->
                            <<self.depthmap_arr[start + k], self.orig_img_arr[start + k],
                              self.mask_arr[start + k], self.rois[start + k]>>]
                   /\ pc' = "pool"
          ELSE /\ pc' = "videos"
               /\ UNCHANGED <<batch_size, crop_inputs>>
    /\ UNCHANGED <<env, fs, op, err, self, start, crop_outputs, pool, dispatched, held>>

\* Pool._map_async: chunksize, extra = divmod(len(iterable), len(self._pool) * 4)
ChunkSize(n, processes) ==
    IF n % (processes * 4) = 0 THEN n \div (processes * 4)
    ELSE n \div (processes * 4) + 1

\* number of tasks Pool._get_tasks cuts n items into
ChunkCount(n, chunksize) ==
    IF n = 0 THEN 0 ELSE (n + chunksize - 1) \div chunksize

\* local offsets of the items of chunk k
ChunkItems(k, chunksize, n) == (k * chunksize)..(Min((k + 1) * chunksize, n) - 1)

\* the tasks the workers hold once each idle worker has taken the next task
\* off the queue: tasks leave the queue in order, one per worker
Taken(next, inflight, chunks, processes) ==
    LET more == Min(chunks - next, processes - Cardinality(inflight))
    IN  [next |-> next + more, inflight |-> inflight \cup (next..(next + more - 1))]

\* line 151-152: with mp.Pool(workerCount()) as pool: pool.starmap(crop, crop_inputs)
PoolStarmap(workerCount) ==
    /\ pc = "pool"
    /\ LET n == Dim0(crop_inputs)
           chunksize == ChunkSize(n, workerCount)
           chunks == ChunkCount(n, chunksize)
           taken == Taken(0, {}, chunks, workerCount)
       IN  pool' = [open |-> TRUE, processes |-> workerCount, chunksize |-> chunksize,
                    chunks |-> chunks, next |-> taken.next, inflight |-> taken.inflight,
                    value |-> [k \in 0..(n - 1) |-> NoValue], success |-> TRUE]
    /\ dispatched' = Append(dispatched, [first |-> start, frames |-> Dim0(crop_inputs)])
    /\ pc' = "starmap"
    /\ UNCHANGED <<env, fs, op, err, self, start, batch_size, crop_inputs, crop_outputs,
                   held>>

\* a worker returns chunk t (mapstar ran crop over its items, MapResult._set
\* stores them) and takes the next task off the queue
WorkerReturn(t) ==
    /\ pc = "starmap"
    /\ t \in pool.inflight
    /\ LET c == Walk(op.data_path)
           items == ChunkItems(t, pool.chunksize, Dim0(crop_inputs))
           raised == \E k \in items : CropRaises(c, crop_inputs[k])
           Out(k) == crop(crop_inputs[k][1], crop_inputs[k][2],
                          crop_inputs[k][3], crop_inputs[k][4])
           taken == Taken(pool.next, pool.inflight \ {t}, pool.chunks, pool.processes)
       IN  pool' = [pool EXCEPT
                      !.next = taken.next,
                      !.inflight = taken.inflight,
                      !.success = @ /\ ~raised,
                      !.value = IF raised \/ ~pool.success THEN @
                                ELSE [k \in DOMAIN @ |->
                                        IF k \in items THEN Out(k) ELSE @[k]]]
    /\ UNCHANGED <<env, fs, op, pc, err, self, start, batch_size, crop_inputs,
                   crop_outputs, dispatched, held>>

\* mutant: a failed task is dropped and the list is returned with holes
PoolJoin_IgnoreFailure ==
    /\ pc = "starmap"
    /\ pool.next = pool.chunks
    /\ pool.inflight = {}
    /\ crop_outputs' = pool.value
    /\ pc' = "scatter"
    /\ err' = NoValue
    /\ pool' = NoPool
    /\ UNCHANGED <<env, fs, op, self, start, batch_size, crop_inputs, dispatched, held>>

\* mutant: the pool is not torn down when starmap has returned
PoolJoin_KeepPool ==
    /\ pc = "starmap"
    /\ pool.next = pool.chunks
    /\ pool.inflight = {}
    /\ IF pool.success
          THEN /\ crop_outputs' = pool.value
               /\ pc' = "scatter"
               /\ err' = NoValue
          ELSE /\ Raise("WorkerFailure")
               /\ UNCHANGED crop_outputs
    /\ UNCHANGED <<env, fs, op, self, start, batch_size, crop_inputs, dispatched, pool,
                   held>>

\* starmap returns once every task has returned: the list, or the exception
PoolJoin ==
    /\ pc = "starmap"
    /\ pool.next = pool.chunks
    /\ pool.inflight = {}
    /\ IF pool.success
          THEN /\ crop_outputs' = pool.value
               /\ pc' = "scatter"
               /\ err' = NoValue
          ELSE /\ Raise("WorkerFailure")
               /\ UNCHANGED crop_outputs
    /\ pool' = NoPool
    /\ UNCHANGED <<env, fs, op, self, start, batch_size, crop_inputs, dispatched, held>>

\* mutant: the offset is one too small (a negative index wraps to the end)
LocalOffset_OffByOne(idx, first) == (idx - first - 1) % batch_size

\* crop_outputs[idx-start]
LocalOffset(idx, first) == idx - first

\* lines 154-157: write the batch's outputs back at their global indices
ScatterOutputs ==
    /\ pc = "scatter"
    /\ LET InBatch(idx) == idx >= start /\ idx < start + batch_size
       IN  self' = [segmented_img_arr |->
                        [idx \in DOMAIN self.segmented_img_arr |->
                            IF InBatch(idx) THEN crop_outputs[LocalOffset(idx, start)][1]
                            ELSE self.segmented_img_arr[idx]],
                    pointmap |->
                        [idx \in DOMAIN self.pointmap |->
                            IF InBatch(idx) THEN crop_outputs[LocalOffset(idx, start)][2]
                            ELSE self.pointmap[idx]]] @@ self
    /\ start' = start + RangeStep
    /\ pc' = "crop"
    /\ UNCHANGED <<env, fs, op, err, batch_size, crop_inputs, crop_outputs, pool,
                   dispatched, held>>


(***************************************************************************)
(* Preview videos and the Dataset Writer                                   *)
(***************************************************************************)
\* save_video(path, img_arr)
save_video(files, path, img_arr) == Put(files, path, [fps |-> 15, frames |-> img_arr])

\* mutant: the previews are written as soon as the images are segmented
SaveReferenceVideos_Early ==
    /\ pc \in {"crop", "videos"}
    /\ vids' = save_video(save_video(vids, self.dest_path \o <<"og_vid.avi">>,
                                     self.orig_img_arr),
                          self.dest_path \o <<"seg_vid.avi">>, self.segmented_img_arr)
    /\ pc' = "save"
    /\ UNCHANGED <<env, dirs, h5, op, err, self, loop, held>>

SaveReferenceVideos ==
    /\ pc = "videos"
    /\ vids' = save_video(save_video(vids, self.dest_path \o <<"og_vid.avi">>,
                                     self.orig_img_arr),
                          self.dest_path \o <<"seg_vid.avi">>, self.segmented_img_arr)
    /\ pc' = "save"
    /\ UNCHANGED <<env, dirs, h5, op, err, self, loop, held>>

\* a container file just created by h5py.File(path, 'a')
EmptyFile == [attrs |-> EmptyMap, data |-> EmptyMap]

\* h5py.File(path, 'a'): read/write if the file exists, create otherwise
OpenAppend(files, path) == IF path \in DOMAIN files THEN files[path] ELSE EmptyFile

\* shape of a segmented image: (segmenter.height(), segmenter.width(), 3)
SegShape == <<2, 2, 3>>

\* lines 167-178: the scalar attributes, in the order they are assigned
FullAttrs(b, ver) ==
    [name |-> b.name, version |-> ver, length |-> b.length,
     build_date |-> "now", compile_date |-> "now", compile_time |-> "elapsed",
     type |-> "full",
     original_resolution |-> <<b.img_height, b.img_width, 3>>,
     segmented_resolution |-> SegShape,
     depth_intrinsics |-> b.intrin_depth, color_intrinsics |-> b.intrin_color,
     depth_scale |-> b.depth_scale]

\* lines 179-201: the groups and datasets, in the order they are created
FullItems(b) ==
    << <<"angles", b.ang_arr>>,
       <<"positions", b.pos_arr>>,
       <<"coordinates", "group">>,
       <<"coordinates/depthmaps", b.depthmap_arr>>,
       <<"coordinates/depthmaps.attrs", [depth_scale |-> b.depth_scale]>>,
       <<"coordinates/pointmaps", b.pointmap>>,
       <<"images", "group">>,
       <<"images/original", b.orig_img_arr>>,
       <<"images/segmented", b.segmented_img_arr>>,
       <<"images/rois", b.rois>>,
       <<"paths", "group">>,
       <<"paths/jsons", b.jsons>>,
       <<"paths/depthmaps", b.maps>>,
       <<"paths/images", b.imgs>> >>

\* how many of the items are created before a create_* call raises because
\* the name is already in the file
Created(data, items) ==
    IF \A k \in 1..Len(items) : items[k][1] \notin DOMAIN data THEN Len(items)
    ELSE (CHOOSE k \in 1..Len(items) :
            /\ items[k][1] \in DOMAIN data
            /\ \A j \in 1..(k - 1) : items[j][1] \notin DOMAIN data) - 1

\* the file after items[1..n] have been created in it
WithItems(data, items, n) ==
    [x \in (DOMAIN data) \cup {items[k][1] : k \in 1..n} |->
        IF \E k \in 1..n : items[k][1] = x
           THEN items[CHOOSE k \in 1..n : items[k][1] = x][2]
           ELSE data[x]]

\* the with-block of _save_full applied to the file at dest
WriteFull(file, b, ver) ==
    LET items == FullItems(b)
        n == Created(file.data, items)
    IN  [file |-> [attrs |-> FullAttrs(b, ver) @@ file.attrs,
                   data |-> WithItems(file.data, items, n)],
         ok |-> n = Len(items)]

SaveFull ==
    /\ pc = "save"
    /\ LET dest == ContainerPath(self.dest_path, self.name)
           w == WriteFull(OpenAppend(h5, dest), self, op.dataset_ver)
       IN  /\ h5' = Put(h5, dest, w.file)
           /\ IF w.ok THEN pc' = "done" /\ err' = NoValue
                      ELSE Raise("ValueError")
    /\ UNCHANGED <<env, dirs, vids, op, self, loop, held>>


(***************************************************************************)
(* Builder.build_subset                                                    *)
(***************************************************************************)
\* str.replace(old, new) on a path held as a sequence of tokens
RECURSIVE Replace(_, _, _)
Replace(path, old, new) ==
    IF path = << >> THEN << >>
    ELSE (IF Head(path) = old THEN new ELSE <<Head(path)>>)
            \o Replace(Tail(path), old, new)

\* src.replace('.h5', f'_{sub_type}.h5')
SubsetPath(src, sub_type) == Replace(src, ".h5", <<"_", sub_type, ".h5">>)

\* names _read_full looks up in the source file
ReadAttrs == {"name", "length", "depth_intrinsics", "color_intrinsics", "depth_scale"}
ReadItems == {"angles", "positions", "coordinates/depthmaps", "coordinates/pointmaps",
              "images/original", "images/segmented", "images/rois",
              "paths/jsons", "paths/depthmaps", "paths/images"}

\* a lazy h5py handle: it names the object and the file that backs it
Handle(path, key) == [file |-> path, key |-> key]

\* the Builder attributes _read_full binds to h5py objects of the source file
\* (lines 208 and 215-226) rather than to values read from it
LazyFields == {"attrs", "ang_arr", "pos_arr", "depthmap_arr", "pointmap",
               "orig_img_arr", "segmented_img_arr", "rois", "jsons", "maps", "imgs"}

\* a caller can read through attribute f of the Builder once _read_full has
\* returned: the with-block of line 207 has closed the file by then, and any
\* read through an h5py object of a closed file raises
Readable(f) == f \notin LazyFields

\* lines 209-214 in order: the attributes _read_full reads by value
AttrOrder == <<"name", "length", "depth_intrinsics", "color_intrinsics", "depth_scale">>

\* the attributes read before the first one the file does not have
AttrsRead(attrs) ==
    {AttrOrder[k] : k \in {j \in 1..Len(AttrOrder) :
                              \A i \in 1..j : AttrOrder[i] \in DOMAIN attrs}}

\* an access made through an h5py object while the files in opened are open
Use(handle, opened) ==
    [file |-> handle.file, key |-> handle.key, open |-> handle.file \in opened]

\* build_subset up to the end of _read_full: the with-block closes the file
BuildSubset(src, sub_type, idxs) ==
    /\ Idle
    /\ op' = [fn |-> "build_subset", src |-> src, sub_type |-> sub_type, idxs |-> idxs]
    /\ reads' = IF src \notin DOMAIN h5 THEN {}
                ELSE {Use(Handle(src, <<"attrs", a>>), {src}) : a \in AttrsRead(h5[src].attrs)}
    /\ segmenter' = NoSegmenter
    /\ IF src \notin DOMAIN h5
          THEN Raise("OSError") /\ self' = EmptyMap
       ELSE IF ~(ReadAttrs \subseteq DOMAIN h5[src].attrs)
          THEN Raise("KeyError") /\ self' = [attrs |-> Handle(src, "attrs")]
       ELSE IF ~(ReadItems \subseteq DOMAIN h5[src].data)
          THEN Raise("KeyError") /\ self' = [attrs |-> Handle(src, "attrs")]
       ELSE /\ self' = [attrs |-> Handle(src, "attrs"),
                        name |-> h5[src].attrs.name,
                        length |-> h5[src].attrs.length,
                        intrin_depth |-> h5[src].attrs.depth_intrinsics,
                        intrin_color |-> h5[src].attrs.color_intrinsics,
                        depth_scale |-> h5[src].attrs.depth_scale,
                        ang_arr |-> Handle(src, "angles"),
                        pos_arr |-> Handle(src, "positions"),
                        depthmap_arr |-> Handle(src, "coordinates/depthmaps"),
                        pointmap |-> Handle(src, "coordinates/pointmaps"),
                        orig_img_arr |-> Handle(src, "images/original"),
                        segmented_img_arr |-> Handle(src, "images/segmented"),
                        rois |-> Handle(src, "images/rois"),
                        jsons |-> Handle(src, "paths/jsons"),
                        maps |-> Handle(src, "paths/depthmaps"),
                        imgs |-> Handle(src, "paths/images")]
            /\ pc' = "write_subset" /\ err' = NoValue
    /\ start' = 0 /\ batch_size' = 0
    /\ crop_inputs' = << >> /\ crop_outputs' = << >>
    /\ pool' = NoPool /\ dispatched' = << >>
    /\ UNCHANGED <<env, fs>>

\* _write_subset: h5py.File(path,'a') creates the destination, then line 232,
\* file.attrs = self.attrs, takes the attribute manager of the source to copy
\* it while only the destination is open, and raises (File.attrs is a property
\* with no setter); the with-block closes the file as it is
WriteSubset ==
    /\ pc = "write_subset"
    /\ LET dst == SubsetPath(op.src, op.sub_type)
       IN  /\ h5' = Put(h5, dst, OpenAppend(h5, dst))
           /\ reads' = reads \cup {Use(self.attrs, {dst})}
    /\ Raise("AttributeError")
    /\ UNCHANGED <<env, dirs, vids, op, self, loop, segmenter>>

(***************************************************************************)
(* Builder.weld                                                            *)
(***************************************************************************)
\* line 261: the attributes compared before two containers are joined
WeldAttrs == <<"version", "original_resolution", "segmented_resolution",
               "depth_intrinsics", "color_intrinsics", "depth_scale">>

\* attributes h5py returns as numpy arrays (written from .shape tuples)
ArrayAttrs == {"original_resolution", "segmented_resolution"}

\* line 262 for attribute k onwards: the exception raised, NoValue when all pass.
\* `==` on two arrays is an array, and assert on an array with more than one
\* element raises ValueError
RECURSIVE CheckAttrs(_, _, _)
CheckAttrs(a_attrs, b_attrs, k) ==
    IF k > Len(WeldAttrs) THEN NoValue
    ELSE LET attribute == WeldAttrs[k] IN
         IF attribute \notin DOMAIN a_attrs \/ attribute \notin DOMAIN b_attrs
            THEN "KeyError"
         ELSE IF attribute \in ArrayAttrs /\ Len(a_attrs[attribute]) # Len(b_attrs[attribute])
            THEN "AssertionError"
         ELSE IF attribute \in ArrayAttrs /\ Len(a_attrs[attribute]) > 1
            THEN "ValueError"
         ELSE IF a_attrs[attribute] # b_attrs[attribute]
            THEN "AssertionError"
         ELSE CheckAttrs(a_attrs, b_attrs, k + 1)

\* np.vstack((a, b)) of two arrays of rows
vstack(a, b) ==
    [i \in 0..(Dim0(a) + Dim0(b) - 1) |-> IF i < Dim0(a) THEN a[i] ELSE b[i - Dim0(a)]]

\* the exception weld ends with; it has no path that returns:
\* line 282 calls self._save_full() without its required argument ver
WeldRaises(files, path_a, path_b) ==
    IF path_a \notin DOMAIN files \/ path_b \notin DOMAIN files THEN "OSError"
    ELSE LET checked == CheckAttrs(files[path_a].attrs, files[path_b].attrs, 1) IN
         IF checked # NoValue THEN checked
         ELSE IF ~(ReadItems \subseteq DOMAIN files[path_a].data)
                 \/ ~(ReadItems \subseteq DOMAIN files[path_b].data) THEN "KeyError"
         ELSE IF files[path_a].attrs.length # files[path_b].attrs.length THEN "ValueError"
         ELSE "TypeError"

Weld(path_a, path_b, dst_dir, name) ==
    /\ Idle
    /\ op' = [fn |-> "weld", path_a |-> path_a, path_b |-> path_b,
              dst_dir |-> dst_dir, name |-> name]
    /\ Raise(WeldRaises(h5, path_a, path_b))
    /\ self' = EmptyMap
    /\ start' = 0 /\ batch_size' = 0
    /\ crop_inputs' = << >> /\ crop_outputs' = << >>
    /\ pool' = NoPool /\ dispatched' = << >>
    /\ segmenter' = NoSegmenter /\ reads' = {}
    /\ UNCHANGED <<env, fs>>

(***************************************************************************)
(* robotpose.dataset (src/robotpose/dataset.py): the compiled datasets     *)
(* under p.datasets, Dataset.validate, build and Dataset.__init__.         *)
(* Versions are held in tenths: 1.0 is 10 and 1.4 is 14.                   *)
(***************************************************************************)
\* line 17: dataset_version = 1.0
dataset_version == 10

\* largest version, in tenths, recorded in a ds.json of the model
MaxVersion == 21

\* mutant: the versions are compared as they are
IntPart_Exact(tenths) == tenths

\* int(x) of a non-negative float
IntPart(tenths) == tenths \div 10

\* the files of a compiled dataset, in the order build writes them
DatasetFiles == <<"og_img.npy", "og_vid.avi", "seg_img.npy", "seg_vid.avi",
                  "ply.npy", "ang.npy", "ds.json">>
FileSet == {DatasetFiles[k] : k \in 1..Len(DatasetFiles)}

\* the outcome of a call: the exception it raised, or the value it returned
Raised(exc) == [raised |-> exc, value |-> FALSE]
Returned(value) == [raised |-> NoValue, value |-> value]

\* Dataset.validate(path), dir being the directory at path: its files and
\* the dict json.load gives for its ds.json
validate(dir) ==
    LET ang == "ang.npy" \in dir.files
        dsj == "ds.json" \in dir.files
        ply == "ply.npy" \in dir.files
        seg_img == "seg_img.npy" \in dir.files
        og_img == "og_img.npy" \in dir.files
        seg_vid == "seg_vid.avi" \in dir.files
        og_vid == "og_vid.avi" \in dir.files
        d == dir.info
    IN  IF ~dsj THEN Raised("FileNotFoundError")
        ELSE IF "ds_ver" \notin DOMAIN d THEN Returned(FALSE)
        ELSE IF IntPart(d.ds_ver) # IntPart(dataset_version) THEN Returned(FALSE)
        ELSE Returned(ang /\ dsj /\ ply /\ seg_img /\ og_img /\ seg_vid /\ og_vid)

\* lines 132-138: the info dict build writes to ds.json
Info(nm, length) == [ds_ver |-> dataset_version, name |-> nm, frames |-> length]

\* build(data_path) for data_path = p.datasets/raw/nm: the compiled
\* directories after the call and the exception that ended it, if any.
\* A raw directory is "ok" (as many json, ply and png files as frames, at
\* least one) or "unequal" (the counts differ).
build(compiled, raws, nm) ==
    LET made == IF nm \in DOMAIN compiled THEN compiled
                ELSE Put(compiled, nm, [files |-> {}, info |-> EmptyMap])
    IN  IF nm \notin DOMAIN raws
           THEN [datasets |-> made, raised |-> "FileNotFoundError"]
        ELSE IF raws[nm] = "unequal"
           THEN [datasets |-> made, raised |-> "AssertionError"]
        ELSE [datasets |-> Put(made, nm, [files |-> made[nm].files \cup FileSet,
                                          info |-> Info(nm, 1)]),
              raised |-> NoValue]

\* dataset names, as strings of characters
S1 == <<"s", "1">>
S10 == <<"s", "1", "0">>
DatasetNames == {S1, S10}

\* `name in nm` of two strings
Contains(nm, name) ==
    \E i \in 1..(Len(nm) - Len(name) + 1) : SubSeq(nm, i, i + Len(name) - 1) = name

\* the entries of a directory listing whose name holds the name asked for
Matches(names, name) == {nm \in names : Contains(nm, name)}

\* what the Dataset constructor keeps untouched
builder == <<raw, dirs, h5, vids, op, pc, err, self, start, batch_size,
             crop_inputs, crop_outputs, pool, dispatched, segmenter, reads,
             aligner, rend, wizard>>

\* Dataset.__init__ ends with exception exc
Crash(exc) == ds' = [ds EXCEPT !.pc = "crashed", !.err = exc]

\* Dataset(name): lines 148-155
DatasetNew(name) ==
    /\ ds.pc \in {"idle", "loaded", "crashed"}
    /\ ds' = [DsIdle EXCEPT !.pc = "search", !.name = name]
    /\ UNCHANGED <<builder, datasets, rawsets>>

\* lines 153-170: the first compiled directory whose name holds the name
\* asked for is validated (os.scandir lists in no particular order, so any
\* match can be the first); the others are never looked at
SearchCompiled ==
    /\ ds.pc = "search"
    /\ LET found == Matches(DOMAIN datasets, ds.name) IN
       IF found = {}
          THEN ds' = [ds EXCEPT !.pc = "search_raw"]
          ELSE \E nm \in found :
                 LET v == validate(datasets[nm]) IN
                 IF v.raised # NoValue
                    THEN ds' = [ds EXCEPT !.pc = "crashed", !.err = v.raised, !.nm = nm]
                 ELSE IF v.value
                    THEN ds' = [ds EXCEPT !.pc = "load", !.nm = nm]
                 ELSE ds' = [ds EXCEPT !.pc = "rebuild", !.nm = nm]
    /\ UNCHANGED <<builder, datasets, rawsets>>

\* line 166: self.build(os.path.join(os.path.join(p.datasets,'raw'),nm))
Recompile ==
    /\ ds.pc = "rebuild"
    /\ LET b == build(datasets, rawsets, ds.nm) IN
       /\ datasets' = b.datasets
       /\ IF b.raised # NoValue
             THEN ds' = [ds EXCEPT !.pc = "crashed", !.err = b.raised, !.builds = @ + 1]
             ELSE ds' = [ds EXCEPT !.pc = "load", !.builds = @ + 1]
    /\ UNCHANGED <<builder, rawsets>>

\* lines 174-188: no compiled directory matched; the first matching raw
\* directory is built, and the constructor fails when there is none
SearchRaw ==
    /\ ds.pc = "search_raw"
    /\ LET found == Matches(DOMAIN rawsets, ds.name) IN
       IF found = {}
          THEN Crash("AssertionError") /\ UNCHANGED datasets
          ELSE \E nm \in found :
                 LET b == build(datasets, rawsets, nm) IN
                 /\ datasets' = b.datasets
                 /\ IF b.raised # NoValue
                       THEN ds' = [ds EXCEPT !.pc = "crashed", !.err = b.raised,
                                             !.nm = nm, !.builds = @ + 1]
                       ELSE ds' = [ds EXCEPT !.pc = "load", !.nm = nm, !.builds = @ + 1]
    /\ UNCHANGED <<builder, rawsets>>

\* the files Dataset.load reads with load_seg = True and load_og = False
\* (cv2.VideoCapture of a missing file does not raise)
LoadFiles == {"ds.json", "seg_img.npy", "ang.npy", "ply.npy"}

\* line 191: self.load(skeleton)
Load ==
    /\ ds.pc = "load"
    /\ LET dir == datasets[ds.nm] IN
       IF ~(LoadFiles \subseteq dir.files) THEN Crash("FileNotFoundError")
       ELSE IF "frames" \notin DOMAIN dir.info THEN Crash("KeyError")
       ELSE ds' = [ds EXCEPT !.pc = "loaded"]
    /\ UNCHANGED <<builder, datasets, rawsets>>

\* the first k files build writes
Written(k) == {DatasetFiles[j] : j \in 1..k}

\* the dicts a ds.json may hold: written before versioning, or with a version
Infos ==
    {[name |-> S1, frames |-> 1]}
       \cup {[ds_ver |-> v, name |-> S1, frames |-> 1] : v \in 0..MaxVersion}

\* the states a compiled directory may be in: complete, left by a build that
\* was interrupted, or with one file deleted
DirStates ==
    LET sets == {Written(k) : k \in 0..Len(DatasetFiles)}
                   \cup {FileSet \ {f} : f \in FileSet}
    IN  {[files |-> F, info |-> EmptyMap] : F \in {G \in sets : "ds.json" \notin G}}
          \cup {[files |-> F, info |-> i] :
                    F \in {G \in sets : "ds.json" \in G}, i \in Infos}

\* a complete directory of the current version, and one of another base
Current == [files |-> FileSet, info |-> Info(S10, 1)]
Stale == [files |-> FileSet, info |-> [ds_ver |-> 0, name |-> S10, frames |-> 1]]

\* the contents of p.datasets the constructor may find
Stores ==
    {[nm \in {S1} |-> d] : d \in DirStates}
       \cup {[nm \in {S10} |-> d] : d \in {Current, Stale}}
       \cup {[nm \in {S1, S10} |-> IF nm = S1 THEN d ELSE e] :
                d \in DirStates, e \in {Current, Stale}}
       \cup {EmptyMap}

\* the contents of p.datasets/raw
RawStores ==
    {[nm \in {S1} |-> k] : k \in {"ok", "unequal"}}
       \cup {[nm \in {S1, S10} |-> IF nm = S1 THEN k ELSE "ok"] : k \in {"ok", "unequal"}}
       \cup {[nm \in {S10} |-> "ok"], EmptyMap}

DatasetInit ==
    /\ raw = EmptyMap
    /\ dirs = {}
    /\ h5 = EmptyMap
    /\ vids = EmptyMap
    /\ op = [fn |-> "none"]
    /\ pc = "idle"
    /\ err = NoValue
    /\ self = EmptyMap
    /\ start = 0
    /\ batch_size = 0
    /\ crop_inputs = << >>
    /\ crop_outputs = << >>
    /\ pool = NoPool
    /\ dispatched = << >>
    /\ segmenter = NoSegmenter
    /\ reads = {}
    /\ datasets \in Stores
    /\ rawsets \in RawStores
    /\ ds = DsIdle
    /\ aligner = NoObject
    /\ rend = NoObject
    /\ wizard = NoObject

DatasetNext ==
    \/ \E name \in DatasetNames : DatasetNew(name)
    \/ SearchCompiled
    \/ Recompile
    \/ SearchRaw
    \/ Load

DatasetSpec == DatasetInit /\ [][DatasetNext]_vars

(***************************************************************************)
(* robotpose.render (src/robotpose/render.py): the Aligner.                *)
(* The Dataset and Renderer it holds are taken at their interface: a       *)
(* dataset of ds.length frames with one camera pose and one image per      *)
(* frame.  Poses and step sizes are held in units of 0.0001.               *)
(***************************************************************************)
\* bound on start_idx and end_idx, and the length of a short dataset
MaxClip == 3

\* bound on how far the camera is moved along an axis
MaxPose == 10

\* line 385: the divisor of the image increment
IncDiv == 20

\* line 386-387: the largest image increment
MaxInc == 10

\* lengths for which the increment is 1, 2 and MaxInc
Lengths == {1, MaxClip, 2 * IncDiv + MaxClip, (MaxInc + 1) * IncDiv + MaxClip}

\* an argument left at its default None
NoIdx == -1
ClipIdxs == {NoIdx} \cup 0..MaxClip

\* everything of building.py and dataset.py, which the tools leave alone
world == <<raw, dirs, h5, vids, op, pc, err, self, start, batch_size,
           crop_inputs, crop_outputs, pool, dispatched, segmenter, reads,
           datasets, rawsets, ds>>

\* nothing has been built or loaded
Quiet ==
    /\ raw = EmptyMap
    /\ dirs = {}
    /\ h5 = EmptyMap
    /\ vids = EmptyMap
    /\ op = [fn |-> "none"]
    /\ pc = "idle"
    /\ err = NoValue
    /\ self = EmptyMap
    /\ start = 0
    /\ batch_size = 0
    /\ crop_inputs = << >>
    /\ crop_outputs = << >>
    /\ pool = NoPool
    /\ dispatched = << >>
    /\ segmenter = NoSegmenter
    /\ reads = {}
    /\ datasets = EmptyMap
    /\ rawsets = EmptyMap
    /\ ds = DsIdle

\* int(n / d) for d > 0: true division, then truncation towards zero
IntTrunc(n, d) == IF n >= 0 THEN n \div d ELSE -((-n) \div d)

\* lines 385-389
Increment(start_idx, end_idx) ==
    LET inc == IntTrunc(end_idx - start_idx + 1, IncDiv) IN
    IF inc > MaxInc THEN MaxInc ELSE IF inc < 1 THEN 1 ELSE inc

\* lines 394-395
xyz_steps == <<10, 50, 100, 500, 1000, 2500, 5000>>
ang_steps == <<5, 10, 50, 100, 250, 500, 1000>>

\* i is a valid index of a Python sequence of n items (negative ones count
\* from the end)
ValidIndex(i, n) == i >= -n /\ i < n

\* seq[i] of a Python sequence
Item(seq, i) == IF i >= 0 THEN seq[i + 1] ELSE seq[Len(seq) + i + 1]

\* the camera pose of a frame before any alignment
ZeroPose == [k \in 0..5 |-> 0]

\* the Aligner method ends with exception exc raised at line at
AlignerCrash(exc, at) == [aligner EXCEPT !.pc = "crashed", !.err = exc, !.at = at]

\* Aligner(dataset, skeleton, start_idx, end_idx) on a dataset of length
\* frames: lines 366-396 (one Aligner is followed from its construction on)
AlignerNew(length, start_idx, end_idx) ==
    /\ aligner.pc = "none"
    /\ LET first == IF start_idx # NoIdx THEN start_idx ELSE 0
           last == IF end_idx # NoIdx THEN end_idx ELSE length - 1
           made == [pc |-> "running", length |-> length,
                    idx |-> 0, start_idx |-> first, end_idx |-> last,
                    inc |-> Increment(first, last),
                    camera_pose |-> [i \in Idx(length) |-> ZeroPose],
                    c_pose |-> ZeroPose,
                    step_loc |-> Len(xyz_steps) - 4,
                    xyz_step |-> 0, ang_step |-> 0, inp |-> NoValue,
                    err |-> NoValue, at |-> 0]
       IN  aligner' = IF ValidIndex(first, length) THEN made
                      ELSE [made EXCEPT !.pc = "crashed", !.err = "IndexError",
                                        !.at = 391, !.step_loc = 0]
    /\ UNCHANGED <<world, rend, wizard>>

\* mutant: the step size index is not held at the end of the table
StepUp_NoLimit(step_loc) == step_loc + 1

\* lines 437-439
StepUp(step_loc) ==
    IF step_loc + 1 >= Len(xyz_steps) THEN Len(xyz_steps) - 1 ELSE step_loc + 1

\* lines 442-444
StepDown(step_loc) == IF step_loc - 1 < 0 THEN 0 ELSE step_loc - 1

\* Aligner.increment (lines 498-500): the new self.idx
increment(a, step) ==
    IF ~(a.idx + step > a.end_idx) /\ ~(a.idx + step < a.start_idx)
       THEN a.idx + step ELSE a.idx

\* lines 453-476: the pose after a movement key
Moved(c_pose, inp, xyz_step, ang_step) ==
    CASE inp = "w" -> [c_pose EXCEPT ![0] = @ - xyz_step]
      [] inp = "s" -> [c_pose EXCEPT ![0] = @ + xyz_step]
      [] inp = "a" -> [c_pose EXCEPT ![1] = @ - xyz_step]
      [] inp = "d" -> [c_pose EXCEPT ![1] = @ + xyz_step]
      [] inp = "z" -> [c_pose EXCEPT ![2] = @ + xyz_step]
      [] inp = "x" -> [c_pose EXCEPT ![2] = @ - xyz_step]
      [] inp = "q" -> [c_pose EXCEPT ![3] = @ - ang_step]
      [] inp = "e" -> [c_pose EXCEPT ![3] = @ + ang_step]
      [] inp = "r" -> [c_pose EXCEPT ![4] = @ - ang_step]
      [] inp = "f" -> [c_pose EXCEPT ![4] = @ + ang_step]
      [] inp = "g" -> [c_pose EXCEPT ![5] = @ + ang_step]
      [] inp = "h" -> [c_pose EXCEPT ![5] = @ - ang_step]
      [] OTHER -> c_pose

\* Aligner.saveCameraPose (lines 503-506): the poses after the loop, which
\* raises at the first row the dataset does not have
saveCameraPose(a, c_pose) ==
    [camera_pose |-> [i \in Idx(a.length) |->
                        IF i >= a.start_idx /\ i <= a.end_idx THEN c_pose
                        ELSE a.camera_pose[i]],
     raised |-> a.start_idx <= a.end_idx /\ a.end_idx >= a.length]

\* Aligner.moveCamera(inp), lines 431-479, on Aligner a: the Aligner after it
moveCamera(a, inp) ==
    IF ~ValidIndex(a.step_loc, Len(xyz_steps))
       THEN [a EXCEPT !.pc = "crashed", !.err = "IndexError", !.at = 431, !.inp = inp]
    ELSE
    LET xyz_step == Item(xyz_steps, a.step_loc)
        ang_step == Item(ang_steps, a.step_loc)
        b == [a EXCEPT !.xyz_step = xyz_step, !.ang_step = ang_step, !.inp = inp]
    IN  CASE inp = "0" -> [b EXCEPT !.pc = "closed"]
          [] inp = "=" -> [b EXCEPT !.step_loc = StepUp(a.step_loc)]
          [] inp = "-" -> [b EXCEPT !.step_loc = StepDown(a.step_loc)]
          [] inp = "k" -> [b EXCEPT !.idx = increment(a, -a.inc)]
          [] inp = "l" -> [b EXCEPT !.idx = increment(a, a.inc)]
          [] OTHER ->
               LET c_pose == Moved(a.c_pose, inp, xyz_step, ang_step)
                   saved == saveCameraPose(a, c_pose)
               IN  IF saved.raised
                      THEN [b EXCEPT !.c_pose = c_pose, !.camera_pose = saved.camera_pose,
                                     !.pc = "crashed", !.err = "IndexError", !.at = 506]
                      ELSE [b EXCEPT !.c_pose = c_pose, !.camera_pose = saved.camera_pose]

\* the keys pressed: quit, step size, image, one translation axis both ways
\* and one rotation (the other axes are handled alike), and a key that is
\* not bound
Keys == {"0", "=", "-", "k", "l", "w", "s", "q", "p"}

\* the camera stays within MaxPose of where it started
NearStart(c_pose) == \A k \in 0..5 : c_pose[k] >= -MaxPose /\ c_pose[k] <= MaxPose

\* one pass of the loop of Aligner.run (lines 404-412): the image of self.idx
\* is shown with the overlay, then the key pressed is handled
AlignerKey(inp) ==
    /\ aligner.pc = "running"
    /\ IF ~ValidIndex(aligner.idx, aligner.length)
          THEN aligner' = AlignerCrash("IndexError", 404)
       ELSE IF ~ValidIndex(aligner.step_loc, Len(xyz_steps))
          THEN aligner' = AlignerCrash("IndexError", 488)
       ELSE /\ aligner' = moveCamera(aligner, inp)
            /\ NearStart(aligner'.c_pose)
    /\ UNCHANGED <<world, rend, wizard>>

AlignerInit ==
    /\ Quiet
    /\ aligner = NoObject
    /\ rend = NoObject
    /\ wizard = NoObject

AlignerNext ==
    \/ \E length \in Lengths, start_idx \in ClipIdxs, end_idx \in ClipIdxs :
          AlignerNew(length, start_idx, end_idx)
    \/ \E inp \in Keys : AlignerKey(inp)

AlignerSpec == AlignerInit /\ [][AlignerNext]_vars

(***************************************************************************)
(* robotpose.render: the Renderer's map from scene nodes to segmentation   *)
(* colours (Renderer.__init__, setMode, render, _updateKeypoints,          *)
(* _updateMode, getColorDict).  A node is <<"joint", j>> or <<"key", k>>.  *)
(***************************************************************************)
\* bound on the number of keypoints of a skeleton
MaxKeypoints == 43

\* lines 26-40
DEFAULT_COLORS ==
    << <<0, 0, 85>>, <<0, 0, 170>>, <<0, 0, 255>>, <<0, 85, 0>>,
       <<0, 170, 0>>, <<0, 255, 0>>, <<85, 0, 0>>, <<170, 0, 0>>,
       <<255, 0, 0>>, <<0, 0, 85>>, <<0, 85, 85>>, <<85, 0, 85>>,
       <<85, 85, 0>>, <<0, 0, 170>>, <<0, 170, 170>>, <<170, 0, 170>>,
       <<170, 170, 0>>, <<0, 0, 255>>, <<0, 255, 255>>, <<255, 0, 255>>,
       <<255, 255, 0>>, <<170, 85, 85>>, <<85, 170, 85>>, <<85, 85, 170>>,
       <<255, 85, 85>>, <<85, 255, 85>>, <<85, 85, 255>>,
       <<255, 170, 170>>, <<170, 255, 170>>, <<170, 170, 255>>,
       <<85, 170, 170>>, <<170, 85, 170>>, <<170, 170, 85>>,
       <<85, 255, 255>>, <<255, 85, 255>>, <<255, 255, 85>>,
       <<85, 170, 255>>, <<255, 85, 170>>, <<170, 255, 85>>,
       <<255, 85, 170>>, <<170, 255, 85>>, <<85, 85, 85>> >>

\* the meshes of the mesh configuration: BASE, S, L, U, R, BT (line 53)
JointCount == 6

joint_nodes == {<<"joint", j>> : j \in Idx(JointCount)}
KeyNodes(n) == {<<"key", k>> : k \in Idx(n)}

\* the position of a node in self.joint_nodes or self.key_nodes
Position(node) == node[2]

\* line 275
valid_modes == {"seg", "key", "seg_full"}
Modes == valid_modes \cup {"real"}

\* Renderer._updateMode (lines 334-348) with n keypoint nodes: the map it
\* leaves, and the exception of an index past the end of DEFAULT_COLORS
updateMode(mode, n) ==
    LET colours == Len(DEFAULT_COLORS)
        last == Item(DEFAULT_COLORS, -1)
    IN  CASE mode = "seg" ->
               [map |-> [node \in joint_nodes |-> Item(DEFAULT_COLORS, Position(node))],
                raised |-> NoValue]
          [] mode = "key" /\ n > colours ->
               [map |-> [node \in KeyNodes(colours) |->
                            Item(DEFAULT_COLORS, Position(node))],
                raised |-> "IndexError"]
          [] mode = "key" /\ n <= colours ->
               [map |-> [node \in KeyNodes(n) \cup joint_nodes |->
                            IF node \in joint_nodes THEN last
                            ELSE Item(DEFAULT_COLORS, Position(node))],
                raised |-> NoValue]
          [] mode = "seg_full" ->
               [map |-> [node \in joint_nodes |-> Item(DEFAULT_COLORS, 0)],
                raised |-> NoValue]
          [] OTHER -> [map |-> EmptyMap, raised |-> NoValue]

\* Renderer.getColorDict in 'key' mode (lines 299-304): the keypoint nodes
\* of the map with their colours
getColorDict(r) ==
    [node \in {x \in DOMAIN r.node_color_map : x[1] = "key"} |-> r.node_color_map[node]]

\* Renderer(dataset, skeleton, mode = mode) for a skeleton of n keypoints:
\* line 215 stores the mode, line 256 (_updateKeypoints) adds the keypoint
\* nodes and maps the colours, line 260 (setMode) checks the mode
RendererNew(n, mode) ==
    /\ rend.pc \in {"none", "ready", "crashed"}
    /\ LET u == updateMode(mode, n)
           made == [pc |-> "ready", mode |-> mode, key_nodes |-> n,
                    node_color_map |-> u.map, err |-> NoValue]
       IN  rend' = IF u.raised # NoValue
                      THEN [made EXCEPT !.pc = "crashed", !.err = u.raised]
                   ELSE IF mode \notin valid_modes
                      THEN [made EXCEPT !.pc = "crashed", !.err = "AssertionError"]
                   ELSE made
    /\ UNCHANGED <<world, aligner, wizard>>

\* Renderer.setMode(mode), lines 274-278
setMode(mode) ==
    /\ rend.pc = "ready"
    /\ IF mode \notin valid_modes
          THEN rend' = [rend EXCEPT !.err = "AssertionError"]
          ELSE LET u == updateMode(mode, rend.key_nodes)
               IN  rend' = [rend EXCEPT !.mode = mode, !.node_color_map = u.map,
                                        !.err = u.raised]
    /\ UNCHANGED <<world, aligner, wizard>>

\* Renderer.render(update_keypoints = True), lines 264-266: the keypoints
\* are read again (n of them now) and the colours mapped anew
render(n) ==
    /\ rend.pc = "ready"
    /\ LET u == updateMode(rend.mode, n)
       IN  rend' = [rend EXCEPT !.key_nodes = n, !.node_color_map = u.map,
                                !.err = u.raised]
    /\ UNCHANGED <<world, aligner, wizard>>

RendererInit ==
    /\ Quiet
    /\ aligner = NoObject
    /\ rend = NoObject
    /\ wizard = NoObject

RendererNext ==
    \/ \E n \in 0..MaxKeypoints, mode \in Modes : RendererNew(n, mode)
    \/ \E mode \in Modes : setMode(mode)
    \/ \E n \in 0..MaxKeypoints : render(n)

RendererSpec == RendererInit /\ [][RendererNext]_vars

(***************************************************************************)
(* robotpose.wizards (src/robotpose/wizards.py): the DatasetWizard window. *)
(* The datasets known to DatasetInfo and the valid skeletons are taken at  *)
(* their interface, as sets of names; the two combo boxes are editable, so *)
(* a value read from one is any text.                                      *)
(***************************************************************************)
\* what the user can have in the dataset and the skeleton box
DatasetTexts == {"", "set1", "set2", "other"}
SkeletonTexts == {"", "A", "B"}

\* lines 30-36: the buttons, and which are disabled when the window is made
Buttons == {"-load-", "-align-", "-edit_skele-", "-manual_annotate-"}
InitiallyDisabled == {"-manual_annotate-"}

\* sg.Button.update(disabled = value) for the buttons in names
Update(disabled, names, value) ==
    [b \in Buttons |-> IF b \in names THEN value ELSE disabled[b]]

\* DatasetWizard._updateButtons(values), lines 56-76: the disabled flags after
updateButtons(w, dataset, skeleton) ==
    LET first ==
          IF dataset \in w.unique_sets
             THEN LET enabled == Update(w.disabled, {"-load-", "-align-"}, FALSE)
                  IN  IF skeleton \in w.valid_skeletons
                         THEN Update(enabled, {"-manual_annotate-"}, FALSE)
                         ELSE Update(enabled, {"-manual_annotate-"}, TRUE)
             ELSE Update(w.disabled, {"-load-", "-align-"}, TRUE)
    IN  IF skeleton \in w.valid_skeletons
           THEN Update(first, {"-edit_skele-"}, FALSE)
           ELSE Update(first, {"-edit_skele-"}, TRUE)

\* DatasetWizard._runEvent(event, values), lines 80-88: the tool launched and
\* the exception it ends with.  _runAligner calls Aligner(dataset) without
\* the skeleton argument Aligner.__init__ requires (render.py line 366)
runEvent(event, dataset, skeleton) ==
    CASE event = "-align-" -> [ran |-> <<"Aligner", dataset>>, raised |-> "TypeError"]
      [] event = "-manual_annotate-" ->
            [ran |-> <<"Annotator", dataset, skeleton>>, raised |-> NoValue]
      [] event = "-edit_skele-" ->
            [ran |-> <<"SkeletonWizard", skeleton>>, raised |-> NoValue]
      [] OTHER -> [ran |-> << >>, raised |-> NoValue]

\* DatasetWizard() and the window of run (lines 24-43)
WizardNew(unique_sets, valid_skeletons) ==
    /\ wizard.pc \in {"none", "closed", "crashed"}
    /\ wizard' = [pc |-> "open",
                  unique_sets |-> unique_sets, valid_skeletons |-> valid_skeletons,
                  disabled |-> [b \in Buttons |-> b \in InitiallyDisabled],
                  dataset |-> "", skeleton |-> "",
                  event |-> "", ran |-> << >>, err |-> NoValue]
    /\ UNCHANGED <<world, aligner, rend>>

\* what window.read(10) returns as the event: the timeout, a click on a
\* button that is not disabled, or the end of the window
Events == Buttons \cup {"__TIMEOUT__", "-quit-"}

\* one pass of the loop of run (lines 48-51)
WizardRead(event, dataset, skeleton) ==
    /\ wizard.pc = "open"
    /\ event \in Buttons => ~wizard.disabled[event]
    /\ IF event = "-quit-"
          THEN wizard' = [wizard EXCEPT !.pc = "closed", !.event = event]
          ELSE LET r == runEvent(event, dataset, skeleton) IN
               wizard' = [wizard EXCEPT
                            !.disabled = updateButtons(wizard, dataset, skeleton),
                            !.dataset = dataset, !.skeleton = skeleton,
                            !.event = event, !.ran = r.ran, !.err = r.raised,
                            !.pc = IF r.raised # NoValue THEN "crashed" ELSE "open"]
    /\ UNCHANGED <<world, aligner, rend>>

\* the datasets DatasetInfo knows and the skeletons that are valid
KnownSets == SUBSET {"set1", "set2"}
SkeletonSets == {{}, {"A"}, {"A", "B"}}

WizardInit ==
    /\ Quiet
    /\ aligner = NoObject
    /\ rend = NoObject
    /\ wizard = NoObject

WizardNext ==
    \/ \E unique_sets \in KnownSets, skeletons \in SkeletonSets :
          WizardNew(unique_sets, skeletons)
    \/ \E event \in Events, dataset \in DatasetTexts, skeleton \in SkeletonTexts :
          WizardRead(event, dataset, skeleton)

WizardSpec == WizardInit /\ [][WizardNext]_vars

(***************************************************************************)
(* Specification                                                           *)
(***************************************************************************)
DataPaths == {<<"raw", d>> : d \in DOMAIN raw}
DestDirs == {<<"DATASETS", nm>> : nm \in Names}
SubTypes == {"train"}
WeldNames == {"welded"} \cup Names
IdxLists == UNION {[1..k -> 0..1] : k \in 1..MaxIdxs}

\* container paths a caller may name as a source
SourcePaths == {ContainerPath(d, Basename(d)) : d \in DestDirs} \cup DOMAIN h5

Next ==
    \/ \E data_path \in DataPaths, ver \in Versions, name \in Names \cup {NoValue} :
          BuildFull(data_path, ver, name)
    \/ GetFilepaths
    \/ LoadJsonData
    \/ LoadImgsAndDepthmaps
    \/ SegmenterNew
    \/ SegmentImage
    \/ SegmentImages
    \/ AssembleBatch
    \/ \E workerCount \in 1..MaxWorkers : PoolStarmap(workerCount)
    \/ \E t \in 0..(BatchSize - 1) : WorkerReturn(t)
    \/ PoolJoin
    \/ ScatterOutputs
    \/ SaveReferenceVideos
    \/ SaveFull
    \/ \E src \in SourcePaths, sub_type \in SubTypes, idxs \in IdxLists :
          BuildSubset(src, sub_type, idxs)
    \/ WriteSubset
    \/ \E path_a \in SourcePaths, path_b \in SourcePaths, name \in WeldNames :
          Weld(path_a, path_b, <<"DATASETS", name>>, name)

Spec == Init /\ [][Next]_vars


(***************************************************************************)
(* Properties                                                              *)
(***************************************************************************)
\* a build_full call is at or past position p of the crop loop
InCropStage == op.fn = "build_full" /\ pc \in {"crop", "pool", "starmap", "scatter"}
PastCropStage == op.fn = "build_full" /\ pc \in {"videos", "save", "done"}

\* frame i's cropped outputs are the Cropper's result for frame i's own inputs
CroppedInPlace(i) ==
    LET out == crop(self.depthmap_arr[i], self.orig_img_arr[i],
                    self.mask_arr[i], self.rois[i])
    IN  self.segmented_img_arr[i] = out[1] /\ self.pointmap[i] = out[2]

\* C1: once a batch has been written back, and so for every frame after the
\* crop stage, the segmented image and point map at index i are the Cropper's
\* result for (depth[i], image[i], mask[i], roi[i]) of the same index, for every
\* frame count, worker count and order in which the workers return.
C1_OrderPreserved ==
    /\ InCropStage =>
          \A i \in 0..(Min(start, self.length) - 1) : CroppedInPlace(i)
    /\ PastCropStage => \A i \in 0..(self.length - 1) : CroppedInPlace(i)

\* the second batch of a build is in the pool, a later chunk has returned
\* before an earlier one, and the first batch is already written back
C1_Witness ==
    /\ op.fn = "build_full" /\ pc = "starmap" /\ start = BatchSize
    /\ pool.processes > 1
    /\ \E j, k \in DOMAIN pool.value :
          j < k /\ pool.value[j] = NoValue /\ pool.value[k] # NoValue

\* the batches dispatched so far that hold frame i
BatchesOf(i) ==
    {k \in 1..Len(dispatched) :
        dispatched[k].first <= i /\ i < dispatched[k].first + dispatched[k].frames}

\* C3: the crop stage dispatches contiguous index ranges in increasing order,
\* each of exactly 100 frames except that the last holds the remaining frames,
\* none empty or larger than 100, and after the stage every frame index
\* 0..N-1 has been dispatched in exactly one batch.
C3_BatchPartition ==
    /\ (InCropStage \/ PastCropStage) =>
          \A k \in 1..Len(dispatched) :
             /\ dispatched[k].first = (k - 1) * BatchSize
             /\ dispatched[k].frames = Min(BatchSize, self.length - dispatched[k].first)
             /\ dispatched[k].frames >= 1
             /\ dispatched[k].frames <= BatchSize
    /\ PastCropStage =>
          \A i \in 0..(self.length - 1) : Cardinality(BatchesOf(i)) = 1

\* a finished build whose last batch was a truncated one after a full one
C3_Witness ==
    /\ op.fn = "build_full" /\ pc = "done"
    /\ Len(dispatched) >= 2
    /\ dispatched[1].frames = BatchSize
    /\ dispatched[Len(dispatched)].frames < BatchSize


\* the capture the build_full call in progress reads
Cap == Walk(op.data_path)

\* the batch the frame the Cropper raises for was dispatched in, 0 for none yet
FailedBatch ==
    IF \E k \in 1..Len(dispatched) : Cap.bad_crop \in
          dispatched[k].first..(dispatched[k].first + dispatched[k].frames - 1)
       THEN CHOOSE k \in 1..Len(dispatched) : Cap.bad_crop \in
               dispatched[k].first..(dispatched[k].first + dispatched[k].frames - 1)
       ELSE 0

\* the build in progress has handed the pool a frame the Cropper raises for
CropRaised == op.fn = "build_full" /\ Cap.bad_crop >= 0 /\ FailedBatch > 0

\* C5: once a batch holding a frame the Cropper raises for has been given to
\* the pool, the build can only end in error: that batch stays the last one
\* dispatched, its outputs are never written back (no frame is skipped), and
\* no step of the build writes a preview video or a container file.
C5_WorkerFailureAborts ==
    /\ [](CropRaised =>
            /\ pc \in {"starmap", "error"}
            /\ FailedBatch = Len(dispatched))
    /\ [](pc = "scatter" => \A k \in DOMAIN crop_outputs : crop_outputs[k] # NoValue)
    /\ [][CropRaised => (h5' = h5 /\ vids' = vids)]_vars

\* a build ended by a worker failure in its first batch, with frames left over
C5_Witness ==
    /\ CropRaised /\ pc = "error" /\ err = "WorkerFailure"
    /\ FailedBatch = 1
    /\ self.length > BatchSize

\* the frames of capture c share one depth_scale and both intrinsics values
SharedCamera(c) ==
    \A i \in 1..(c.n_json - 1) :
        /\ JsonFile(c, i).depth_scale = JsonFile(c, 0).depth_scale
        /\ JsonFile(c, i).intrin_depth = JsonFile(c, 0).intrin_depth
        /\ JsonFile(c, i).intrin_color = JsonFile(c, 0).intrin_color

\* a build_full call is reading a capture whose camera settings differ
MixedCamera == op.fn = "build_full" /\ ~SharedCamera(Cap)

\* C6: a build of a capture whose frames do not share one depth_scale, one
\* depth-intrinsics and one colour-intrinsics value never gets past the scan
\* (file discovery and JSON parsing), and none of its steps writes a
\* container file or a preview video.
C6_MixedCameraRejected ==
    /\ [](MixedCamera => pc \in {"scan", "json", "error"})
    /\ [][MixedCamera => (h5' = h5 /\ vids' = vids)]_vars

\* a build that the uniform-camera check ended, on a capture whose depth
\* scale is uniform and whose intrinsics are not
C6_Witness ==
    /\ MixedCamera /\ pc = "error" /\ err = "AssertionError"
    /\ "ang_arr" \in DOMAIN self
    /\ Cap.cam[1] = "intrin_color"

\* the three file counts of the capture the build reads are not all equal
UnequalCounts ==
    /\ op.fn = "build_full"
    /\ ~(Cap.n_json = Cap.n_png /\ Cap.n_npy = Cap.n_png)

\* C7: a build of a capture whose numbers of JSON, depth-map and image files
\* are not all equal ends in the scan, before any JSON is parsed and before
\* any image or depth map is loaded.
C7_UnequalCountsRejected ==
    UnequalCounts =>
        /\ pc \in {"scan", "error"}
        /\ "ang_arr" \notin DOMAIN self
        /\ "orig_img_arr" \notin DOMAIN self
        /\ "depthmap_arr" \notin DOMAIN self

\* a build ended by the count check where only the depth maps are too few
C7_Witness ==
    /\ UnequalCounts /\ pc = "error" /\ err = "AssertionError"
    /\ Cap.n_json = Cap.n_png
    /\ Cap.n_npy < Cap.n_png


\* the scalar attributes of a container (spec section 6)
AttrNames == {"name", "version", "length", "build_date", "compile_date",
              "compile_time", "type", "original_resolution", "segmented_resolution",
              "depth_intrinsics", "color_intrinsics", "depth_scale"}

\* the file at path holds every scalar attribute and every per-frame array
Populated(path) ==
    /\ path \in DOMAIN h5
    /\ AttrNames \subseteq DOMAIN h5[path].attrs
    /\ ReadItems \subseteq DOMAIN h5[path].data

\* C2: every container that holds the ten per-frame arrays has each of them
\* with a leading dimension equal to its recorded length attribute.
C2_LengthInvariant ==
    \A path \in DOMAIN h5 :
        Populated(path) =>
            \A item \in ReadItems : Dim0(h5[path].data[item]) = h5[path].attrs.length

\* C4: after any sequence of operations every container file that exists
\* holds all its scalar attributes and all its per-frame arrays.
C4_NoPartialContainer == \A path \in DOMAIN h5 : Populated(path)

\* C8: a build gets past loading only if every colour image has the shape of
\* the first image and every depth map has that image's height and width.
C8_ShapeMismatchRejected ==
    (op.fn = "build_full" /\ (InCropStage \/ PastCropStage \/ pc = "segment")) =>
        /\ \A i \in 0..(Cap.n_png - 1) : ImageFile(Cap, i).shape = ImageFile(Cap, 0).shape
        /\ \A i \in 0..(Cap.n_npy - 1) :
              MapFile(Cap, i).shape = SubSeq(ImageFile(Cap, 0).shape, 1, 2)

\* a build_subset call has ended whose source is a populated container and
\* whose indices are all within the source
SubsetOfValidSource ==
    /\ op.fn = "build_subset" /\ pc \in {"done", "error"}
    /\ Populated(op.src)
    /\ \A item \in ReadItems : Dim0(h5[op.src].data[item]) = h5[op.src].attrs.length
    /\ \A k \in 1..Len(op.idxs) : op.idxs[k] < h5[op.src].attrs.length

\* C9: build_subset on in-range indices succeeds and writes a container of
\* length len(idxs) whose row k, in every per-frame array, is row idxs[k] of
\* the source.
C9_SubsetGathers ==
    SubsetOfValidSource =>
        LET dst == SubsetPath(op.src, op.sub_type) IN
        /\ pc = "done"
        /\ Populated(dst)
        /\ h5[dst].attrs.length = Len(op.idxs)
        /\ \A item \in ReadItems :
              /\ Dim0(h5[dst].data[item]) = Len(op.idxs)
              /\ \A k \in 1..Len(op.idxs) :
                    h5[dst].data[item][k - 1] = h5[op.src].data[item][op.idxs[k]]

\* a weld call has ended whose inputs are two populated containers that agree
\* on the format and camera metadata
WeldOfCompatible ==
    /\ op.fn = "weld" /\ pc \in {"done", "error"}
    /\ op.path_a # op.path_b
    /\ Populated(op.path_a) /\ Populated(op.path_b)
    /\ \A k \in 1..Len(WeldAttrs) :
          h5[op.path_a].attrs[WeldAttrs[k]] = h5[op.path_b].attrs[WeldAttrs[k]]

\* C10: weld of two compatible containers succeeds and writes a container of
\* length len(A)+len(B) whose per-frame arrays are A's rows followed by B's.
C10_WeldConcatenates ==
    WeldOfCompatible =>
        LET dst == ContainerPath(op.dst_dir, op.name)
            a == h5[op.path_a]
            b == h5[op.path_b]
        IN  /\ pc = "done"
            /\ Populated(dst)
            /\ h5[dst].attrs.length = a.attrs.length + b.attrs.length
            /\ \A item \in ReadItems :
                  h5[dst].data[item] = vstack(a.data[item], b.data[item])

\* a weld call has ended whose inputs are two populated containers that differ
\* in one of the attributes weld compares
WeldOfIncompatible ==
    /\ op.fn = "weld" /\ pc \in {"done", "error"}
    /\ Populated(op.path_a) /\ Populated(op.path_b)
    /\ \E k \in 1..Len(WeldAttrs) :
          h5[op.path_a].attrs[WeldAttrs[k]] # h5[op.path_b].attrs[WeldAttrs[k]]

\* C11: weld of two containers that differ in version, a resolution, an
\* intrinsics value or the depth scale ends in the incompatibility error (the
\* failed assertion of the attribute comparison), with no array concatenated.
C11_WeldIncompatibleRejected ==
    WeldOfIncompatible =>
        /\ pc = "error" /\ err = "AssertionError"
        /\ "ang_arr" \notin DOMAIN self

\* the source paths and the destination path of a build_subset or weld call
Sources ==
    IF op.fn = "build_subset" THEN {op.src}
    ELSE IF op.fn = "weld" THEN {op.path_a, op.path_b}
    ELSE {}
Result ==
    IF op.fn = "build_subset" THEN SubsetPath(op.src, op.sub_type)
    ELSE ContainerPath(op.dst_dir, op.name)

\* a build_subset or weld call on populated source containers has ended
DerivedEnded ==
    /\ op.fn \in {"build_subset", "weld"} /\ pc \in {"done", "error"}
    /\ \A path \in Sources : Populated(path)

\* C12: no step of build_subset or weld changes a source container, and when
\* the call has ended its result is a container at a path that is none of its
\* source paths.
C12_SourcesUntouched ==
    /\ [][op'.fn \in {"build_subset", "weld"} =>
            \A path \in DOMAIN h5 :
               (path \in {op'.src} \/ op'.fn = "weld") => h5'[path] = h5[path]]_vars
    /\ [](DerivedEnded => (Result \notin Sources /\ Populated(Result)))

\* a build_subset call has ended whose source is a populated container and
\* whose index list holds an index at or beyond the source's length
SubsetOutOfRange ==
    /\ op.fn = "build_subset" /\ pc \in {"done", "error"}
    /\ Populated(op.src)
    /\ \E k \in 1..Len(op.idxs) : op.idxs[k] >= h5[op.src].attrs.length

\* C13: build_subset with an index at or beyond the source's length ends in
\* the index-out-of-range error.
C13_IndexOutOfRangeRejected ==
    SubsetOutOfRange => (pc = "error" /\ err = "IndexError")

\* the scalar attributes a subset takes over from its source as they are
Carried == AttrNames \ {"length", "type", "build_date", "compile_date", "compile_time"}

\* C14: the container build_subset writes has every scalar attribute, those
\* of Carried equal to the source's, length equal to the number of indices and
\* type equal to the label.
C14_SubsetKeepsMetadata ==
    SubsetOfValidSource =>
        LET dst == SubsetPath(op.src, op.sub_type) IN
        /\ dst \in DOMAIN h5
        /\ AttrNames \subseteq DOMAIN h5[dst].attrs
        /\ \A a \in Carried : h5[dst].attrs[a] = h5[op.src].attrs[a]
        /\ h5[dst].attrs.length = Len(op.idxs)
        /\ h5[dst].attrs.type = op.sub_type

\* the container path the build_full call in progress writes
Dest == ContainerPath(self.dest_path, self.name)

\* build_full is about to write to a destination that already holds the very
\* arrays it has built: a rebuild of the same unchanged capture
Rebuild ==
    /\ op.fn = "build_full" /\ pc = "save"
    /\ Populated(Dest)
    /\ h5[Dest].data = WriteFull(EmptyFile, self, op.dataset_ver).file.data

\* C15: a second build_full of the same unchanged raw directory to the same
\* destination succeeds and leaves the container's arrays as they were.
C15_RebuildRepeats ==
    [][Rebuild => (pc' = "done" /\ h5'[Dest].data = h5[Dest].data)]_vars

\* the Builder attribute that holds each per-frame array after _read_full
ItemField ==
    [item \in ReadItems |->
        CASE item = "angles" -> "ang_arr"
          [] item = "positions" -> "pos_arr"
          [] item = "coordinates/depthmaps" -> "depthmap_arr"
          [] item = "coordinates/pointmaps" -> "pointmap"
          [] item = "images/original" -> "orig_img_arr"
          [] item = "images/segmented" -> "segmented_img_arr"
          [] item = "images/rois" -> "rois"
          [] item = "paths/jsons" -> "jsons"
          [] item = "paths/depthmaps" -> "maps"
          [] item = "paths/images" -> "imgs"]

\* the Builder attribute through which each scalar attribute is read after
\* _read_full: its own attribute for the five of lines 209-214, self.attrs
\* for the others
AttrField ==
    [a \in AttrNames |->
        CASE a = "name" -> "name"
          [] a = "length" -> "length"
          [] a = "depth_intrinsics" -> "intrin_depth"
          [] a = "color_intrinsics" -> "intrin_color"
          [] a = "depth_scale" -> "depth_scale"
          [] OTHER -> "attrs"]

\* _read_full has returned from reading a container that build_full wrote
ReadBack ==
    /\ op.fn = "build_subset" /\ pc = "write_subset"
    /\ Populated(op.src)
    /\ h5[op.src].attrs.type = "full"

\* C18: after _read_full of a container written by build_full, what the caller
\* reads through the Builder is, for every scalar attribute and every
\* per-frame array, the value that was written.
C18_ReadBack ==
    ReadBack =>
        /\ \A a \in AttrNames :
              Readable(AttrField[a]) /\ self[AttrField[a]] = h5[op.src].attrs[a]
        /\ \A item \in ReadItems :
              Readable(ItemField[item]) /\ self[ItemField[item]] = h5[op.src].data[item]

\* the frames of the batches handed to a pool so far
DispatchedFrames ==
    {i \in 0..(self.length - 1) : BatchesOf(i) # {}}

\* C19: a pool exists only while the starmap of the batch dispatched last is
\* running; each dispatched batch gets a pool of its own, created when none
\* exists; a pool goes away only when every task of its batch has returned;
\* and a batch is assembled only when no pool exists and the outputs of every
\* frame dispatched so far have been written back.
C19_OnePoolPerBatch ==
    /\ [](pool.open => (op.fn = "build_full" /\ pc = "starmap" /\ dispatched # << >>))
    /\ [][(pool'.open /\ pool' # pool /\ pc # "starmap") =>
             (~pool.open /\ Len(dispatched') = Len(dispatched) + 1)]_vars
    /\ [][(Len(dispatched') = Len(dispatched) + 1) => (~pool.open /\ pool'.open)]_vars
    /\ [][(pool.open /\ ~pool'.open) =>
             (pool.next = pool.chunks /\ pool.inflight = {})]_vars
    /\ [][(pc = "crop" /\ pc' = "pool") =>
             /\ ~pool.open
             /\ DispatchedFrames = 0..(start - 1)
             /\ \A i \in DispatchedFrames : CroppedInPlace(i)]_vars

\* the second batch of a build has been assembled: the pool of the first is
\* gone and the pool of the second does not exist yet
C19_Witness ==
    /\ op.fn = "build_full" /\ pc = "pool"
    /\ Len(dispatched) = 1
    /\ ~pool.open
    /\ start = BatchSize

\* the order of the phases of build_full (lines 41-47, and the crop loop of
\* lines 140-157 within _segment_images_and_maps)
PhaseOrder ==
    {<<"scan", "json">>, <<"json", "load">>, <<"load", "segment">>,
     <<"segment", "crop">>, <<"crop", "pool">>, <<"pool", "starmap">>,
     <<"starmap", "scatter">>, <<"scatter", "crop">>, <<"crop", "videos">>,
     <<"videos", "save">>, <<"save", "done">>}

\* a build_full call is between its first and its last step
Building == op.fn = "build_full" /\ ~Idle

\* the build_full call ended in the Scanner (file discovery or JSON parsing)
ScannerFailed ==
    /\ op.fn = "build_full" /\ pc = "error"
    /\ "depth_scale" \notin DOMAIN self

\* C20: a step of build_full moves to the next phase of the order scan, load,
\* segment, crop, preview, write, or to the error that ends the call; images
\* are loaded only by the load phase, masks made only by the segment phase,
\* pools created only in the crop phase, videos written only by the preview
\* phase and containers only by the write phase; a call that has ended in
\* error takes no further step; and after a Scanner failure no image is
\* loaded, no mask made, no batch dispatched and no pool open.
C20_PhaseOrder ==
    /\ [][Building =>
            /\ (pc' = pc \/ <<pc, pc'>> \in PhaseOrder \/ pc' = "error")
            /\ (("orig_img_arr" \in DOMAIN self') /\ ("orig_img_arr" \notin DOMAIN self)
                    => pc = "load")
            /\ (("mask_arr" \in DOMAIN self') /\ ("mask_arr" \notin DOMAIN self)
                    => pc = "segment")
            /\ (pool'.open /\ ~pool.open => pc = "pool")
            /\ (vids' # vids => pc = "videos")
            /\ (h5' # h5 => pc = "save")]_vars
    /\ [][(pc = "error" /\ op.fn = "build_full") =>
            (pc' \in {"scan", "write_subset", "error"} /\ h5' = h5 /\ vids' = vids)]_vars
    /\ [](ScannerFailed =>
            /\ "orig_img_arr" \notin DOMAIN self
            /\ "mask_arr" \notin DOMAIN self
            /\ dispatched = << >>
            /\ ~pool.open)

\* a build that the load phase ended: images were loaded, and neither the
\* Segmenter nor the pool nor a writer ran after it
C20_Witness ==
    /\ op.fn = "build_full" /\ pc = "error" /\ err = "ValueError"
    /\ "orig_img_arr" \in DOMAIN self
    /\ "mask_arr" \notin DOMAIN self
    /\ vids = EmptyMap

\* the directory holds a ds.json whose version has the integer part of the
\* pipeline's version
SameBase(dir) ==
    /\ "ds.json" \in dir.files
    /\ "ds_ver" \in DOMAIN dir.info
    /\ dir.info.ds_ver \div 10 = dataset_version \div 10

\* C16: for every compiled directory with a ds.json, validate returns a
\* value; it returns true only if the recorded version has the integer part
\* of the pipeline's version, false if the version is missing or has another
\* integer part, and true for every complete directory whose version has the
\* same integer part; and the constructor goes on to load without a rebuild
\* only a directory of the same integer part, and rebuilds every one that
\* validate rejects.
C16_VersionBase ==
    /\ \A nm \in DOMAIN datasets :
          "ds.json" \in datasets[nm].files =>
             LET v == validate(datasets[nm]) IN
             /\ v.raised = NoValue
             /\ v.value => SameBase(datasets[nm])
             /\ ~SameBase(datasets[nm]) => ~v.value
             /\ (SameBase(datasets[nm]) /\ datasets[nm].files = FileSet) => v.value
    /\ (ds.pc = "load" /\ ds.builds = 0) => SameBase(datasets[ds.nm])
    /\ ds.pc = "rebuild" =>
          (~SameBase(datasets[ds.nm]) \/ datasets[ds.nm].files # FileSet)

\* the constructor accepted, without a rebuild, a dataset of version 1.4
C16_Witness ==
    /\ ds.pc = "load" /\ ds.builds = 0
    /\ datasets[ds.nm].info.ds_ver = 14
    /\ datasets[ds.nm].files = FileSet

\* the compiled directory fails validation: its version is missing or of
\* another integer part, or one of its files is missing
Invalid(dir) == ~SameBase(dir) \/ dir.files # FileSet

\* C17: when the compiled directory the constructor matches fails validation
\* and a sound raw directory of the same name exists, the constructor does
\* not end in an exception: it goes on to the rebuild, the rebuild is its
\* only one and succeeds, and the load follows and succeeds.
C17_InvalidRebuiltOnce ==
    /\ [][(ds.pc = "search" /\ ds'.pc # "search_raw"
             /\ Invalid(datasets[ds'.nm])
             /\ ds'.nm \in DOMAIN rawsets /\ rawsets[ds'.nm] = "ok")
            => ds'.pc = "rebuild"]_vars
    /\ [][(ds.pc = "rebuild" /\ ds.nm \in DOMAIN rawsets /\ rawsets[ds.nm] = "ok")
            => (ds'.pc = "load" /\ ds'.builds = 1)]_vars
    /\ [][(ds.pc = "load" /\ ds.builds = 1) => ds'.pc = "loaded"]_vars

\* the frames handed to the Segmenter are 0, 1, 2, ... in that order
InIndexOrder(calls) == \A k \in 1..Len(calls) : calls[k] = k - 1

\* a crop batch has been assembled or handed to a pool
CropStarted == crop_inputs # << >> \/ dispatched # << >> \/ pool.open

\* C21: a Segmenter exists only within build_full; the frames it has been
\* given are 0, 1, 2, ... in increasing order, none twice; a step of the
\* build makes at most one Segmenter call, for the next index, and stores its
\* mask and ROI at that index; and once a crop batch is assembled or handed
\* to a pool the Segmenter has been called for every frame and released.
C21_SegmenterSequential ==
    /\ [](segmenter.state # "none" =>
            /\ op.fn = "build_full"
            /\ InIndexOrder(segmenter.calls)
            /\ Len(segmenter.calls) <= self.length)
    /\ [][(segmenter'.calls # segmenter.calls /\ segmenter'.calls # << >>) =>
            /\ segmenter.state = "live" /\ segmenter'.state = "live"
            /\ ~CropStarted
            /\ LET idx == Len(segmenter.calls) IN
               /\ segmenter'.calls = Append(segmenter.calls, idx)
               /\ self'.mask_arr[idx] = segmentImage(self.orig_img_arr[idx]).mask
               /\ self'.rois[idx] = segmentImage(self.orig_img_arr[idx]).roi]_vars
    /\ []((op.fn = "build_full" /\ (CropStarted \/ InCropStage \/ PastCropStage)) =>
            /\ segmenter.state = "released"
            /\ Len(segmenter.calls) = self.length
            /\ DOMAIN self.mask_arr = Idx(self.length))

\* the first batch of a build of several frames is with its pool: every frame
\* has been through the Segmenter, which is gone
C21_Witness ==
    /\ op.fn = "build_full" /\ pc = "starmap"
    /\ Len(dispatched) = 1
    /\ self.length > 1
    /\ Len(segmenter.calls) = self.length
    /\ segmenter.state = "released"

RawDepth(i) == MapFile(Cap, FrameOf(self.maps_p[i])).d

\* the depth map holds the raw values of frame i multiplied once by the scale
OnceScaled(i, depthmap) == depthmap.d = RawDepth(i) * self.depth_scale

\* the load phase of build_full has returned
Loaded ==
    /\ op.fn = "build_full"
    /\ "depthmap_arr" \in DOMAIN self
    /\ (pc = "error" => "mask_arr" \in DOMAIN self)

\* C23: once the load phase has returned every depth map of the build holds
\* the raw values multiplied once by the dataset's depth scale, and no later
\* step changes them; the depth map of each tuple handed to a pool is that
\* of its frame; and the depth maps a finished build has put in the container
\* are the same ones, with the scale recorded beside them.
C23_DepthScaledOnce ==
    /\ [](Loaded => \A i \in Idx(self.length) : OnceScaled(i, self.depthmap_arr[i]))
    /\ [][(Loaded /\ ~Idle) => self'.depthmap_arr = self.depthmap_arr]_vars
    /\ []((op.fn = "build_full" /\ pc \in {"pool", "starmap"}) =>
            \A k \in DOMAIN crop_inputs :
               crop_inputs[k][1] = self.depthmap_arr[start + k])
    /\ []((op.fn = "build_full" /\ pc = "done") =>
            /\ h5[Dest].data["coordinates/depthmaps"] = self.depthmap_arr
            /\ h5[Dest].data["coordinates/depthmaps.attrs"].depth_scale = self.depth_scale
            /\ \A i \in Idx(self.length) :
                  OnceScaled(i, h5[Dest].data["coordinates/depthmaps"][i]))

\* a finished build whose container holds frame 0 at twice its raw depth
C23_Witness ==
    /\ op.fn = "build_full" /\ pc = "done"
    /\ self.depth_scale = 2
    /\ dispatched # << >>
    /\ h5[Dest].data["coordinates/depthmaps"][0].d = 2 * RawDepth(0)

\* build_full was called on a directory that holds no capture file
EmptyCapture ==
    /\ op.fn = "build_full"
    /\ Cap.n_png = 0 /\ Cap.n_json = 0 /\ Cap.n_npy = 0

\* C24: a build of a directory without frames passes the count check and
\* goes on to the JSON stage, which ends it with the assertion error of the
\* camera check; it never reaches the load phase, loads no image, and writes
\* neither a container nor a video.
C24_EmptyCaptureRejected ==
    /\ [][(EmptyCapture /\ pc = "scan") =>
            (pc' = "json" /\ self'.length = 0)]_vars
    /\ [][(EmptyCapture /\ pc = "json") =>
            (pc' = "error" /\ err' = "AssertionError")]_vars
    /\ [](EmptyCapture =>
            /\ pc \in {"scan", "json", "error"}
            /\ "orig_img_arr" \notin DOMAIN self
            /\ "img_height" \notin DOMAIN self
            /\ "depth_scale" \notin DOMAIN self)
    /\ [][(EmptyCapture /\ ~Idle) => (h5' = h5 /\ vids' = vids)]_vars

\* the build of an empty directory has ended at the camera check
C24_Witness ==
    /\ EmptyCapture
    /\ pc = "error" /\ err = "AssertionError"
    /\ "ang_arr" \in DOMAIN self
    /\ self.length = 0

\* C25: while the Aligner runs, the index of the image shown lies between
\* start_idx and end_idx.
C25_IndexInRange ==
    aligner.pc = "running" =>
        (aligner.start_idx <= aligner.idx /\ aligner.idx <= aligner.end_idx)

\* C28: in every Aligner that has been constructed step_loc is an index of
\* the step tables, 0..6, and no step-size lookup of moveCamera or
\* addOverlay has raised.
C28_StepLocInRange ==
    aligner.pc # "none" =>
        /\ aligner.step_loc \in 0..(Len(xyz_steps) - 1)
        /\ Len(ang_steps) = Len(xyz_steps)
        /\ (aligner.pc = "crashed" => aligner.at \notin {431, 432, 488, 489})

\* the largest step was in use when + was pressed, and it still is
C28_Witness ==
    /\ aligner.pc = "running"
    /\ aligner.inp = "="
    /\ aligner.xyz_step = xyz_steps[Len(xyz_steps)]
    /\ aligner.step_loc = Len(xyz_steps) - 1

\* C26: in 'key' mode, once the colours have been mapped, no two keypoint
\* nodes have the same colour, no keypoint node has the colour of the joint
\* nodes, and so a colour of the colour dictionary names one keypoint.
C26_KeypointColoursDistinct ==
    (rend.pc = "ready" /\ rend.mode = "key" /\ rend.err = NoValue) =>
        LET map == rend.node_color_map
            keys == KeyNodes(rend.key_nodes)
        IN  /\ keys \cup joint_nodes = DOMAIN map
            /\ \A a \in keys, b \in keys : a # b => map[a] # map[b]
            /\ \A a \in keys, j \in joint_nodes : map[a] # map[j]
            /\ \A a \in keys, b \in keys :
                  getColorDict(rend)[a] = getColorDict(rend)[b] => a = b

\* C27: while the window is open, the View Annotations button is enabled
\* only if the dataset last read from the dataset box is a known dataset and
\* the skeleton last read from the skeleton box is a valid skeleton.
C27_AnnotateNeedsBoth ==
    (wizard.pc = "open" /\ ~wizard.disabled["-manual_annotate-"]) =>
        /\ wizard.dataset \in wizard.unique_sets
        /\ wizard.skeleton \in wizard.valid_skeletons

============================================================================
